---- MODULE Spec2Model ----
(***************************************************************************)
(* Model of the translation client (src/translate.py, class Translator)    *)
(* and of the product translation cache (src/product_translator.py).       *)
(*                                                                         *)
(* JobSpec : one call of Translator.translate, a step per HTTP exchange.   *)
(* Spec    : processes running product_translator.main over a product      *)
(*           list, a step per provider call and per SQL statement.         *)
(* TranslateSpec : one call of translate_product, any target language.     *)
(* HashSpec : the fingerprint both cache functions take of two records.    *)
(* QuerySpec : calls of get_recent_translations while rows are inserted    *)
(*           (src/query_translations.py).                                  *)
(***************************************************************************)
EXTENDS Integers, Sequences, FiniteSets, TLC

VARIABLES
    \* ---- Translator.translate (src/translate.py) ----
    jpc,              \* position in translate: "idle", "post", "poll", "done"
    text_tokens,      \* size of the argument text, in tokens
    use_sync,         \* argument use_sync
    routing,          \* argument routing (None if not given)
    provider,         \* argument provider (None if not given)
    polling_frequency, \* argument polling_frequency ([is_none, value])
    payload,          \* payload["service"] built by _prepare_payload
    url,              \* endpoint the POST goes to
    poll_interval,    \* local of _handle_async_response (0 before it is set)
    result,           \* the dict held in `result` / `status`
    polls,            \* number of GET /operations/{id} requests issued
    statuses,         \* the status replies received, in order
    slept,            \* duration of the last time.sleep (0 if none)
    waits,            \* time slept between one request and each status poll, in order
    outcome,          \* "none", "Completed" (translate returned), "Failed" (it raised)
    translated_text,  \* text extracted by _extract_translation_result
    error,            \* message of the exception translate raised ("" if none)
    \* ---- product_translator.main (src/product_translator.py) ----
    picked_fields,    \* the field list main passes to the cache and the translator
    target_lang,      \* the target language translate_product is called with
    db,               \* rows of table translation_cache, in insertion (id) order
    dataList,         \* products_data["data"]["dataList"], the list the API returns
    idx,              \* per process: index of the product of the current iteration
    pc,               \* per process: position in main
    product,          \* per process: the dict `product` (top-level mapping)
    translated_product, \* per process: the dict translate_product builds
    lists,            \* per process: the list objects product and its copy share
    cursor,           \* per process: <<field index, element index>> in translate_product
    cached_translation, \* per process: value returned by get_cached_translation
    select_result,    \* per process: row fetched by cache_translation's SELECT
    calls,            \* per process: provider calls issued for the current product
    raised,           \* per process: a call of translate_text has raised
    conns,            \* per process: connections opened and not closed
    store_error,      \* per process: the store operation that raised ("none" if none)
    log,              \* per process: what each finished iteration did
    \* ---- the fingerprint of a record (src/product_translator.py) ----
    records,          \* the two records product_json the fingerprint is taken of
    hashes,           \* per record: hash_value in cache_translation and in
                      \* get_cached_translation
    hashed,           \* per record: which of the two has computed its hash_value
    \* ---- get_recent_translations (src/query_translations.py) ----
    limit,            \* argument limit of the last call
    recent,           \* the list the last call returned
    queried,          \* the rows of the table when the last call ran its query
    queries           \* number of calls so far

jobVars == <<jpc, text_tokens, use_sync, routing, provider, polling_frequency, payload, url, poll_interval,
             result, polls, statuses, slept, waits, outcome, translated_text, error>>
cacheVars == <<picked_fields, target_lang, db, dataList, idx, pc, product,
               translated_product, lists, cursor, cached_translation, select_result,
               calls, raised, conns, store_error, log>>
hashVars == <<records, hashes, hashed>>
queryVars == <<limit, recent, queried, queries>>
vars == <<jobVars, cacheVars, hashVars, queryVars>>

(***************************************************************************)
(* Bounds                                                                  *)
(***************************************************************************)
\* the model stops a polling loop after this many polls (the code has no limit)
MaxPolls == 12

\* the model stops translate_product after this many provider calls for one
\* record (the loop over a list that grows has no limit)
MaxCalls == 4

\* the model fills the table with at most this many rows while it is queried
MaxRows == 3

\* the model stops after this many calls of get_recent_translations
MaxQueries == 2

(***************************************************************************)
(* Translator (src/translate.py)                                           *)
(***************************************************************************)
\* the size the --sync option is documented for: "only if < 10,000 tokens"
SyncTokenCeiling == 10000

\* sizes of the texts translate is called with
TextSizes == {1, SyncTokenCeiling - 1, SyncTokenCeiling}

base_url == "https://api.inten.to/ai/text/translate"
sync_url == "https://syncwrapper.inten.to/ai/text/translate"
default_provider == "ai.text.translate.openai.gpt-4.translate"
default_polling_frequency == 1

None == "None"

\* the values of the optional float argument polling_frequency
NoFrequency == [is_none |-> TRUE, value |-> 0]
Frequency(v) == [is_none |-> FALSE, value |-> v]

\* A provider reply as the JSON dict the code reads.  A key that is absent is
\* has_<key> = FALSE; id "" is an absent (or empty) id.
Reply(id, done, has_results, results, has_response, response, has_error) ==
    [id |-> id, done |-> done,
     has_results |-> has_results, results |-> results,
     has_response |-> has_response, response |-> response,
     has_error |-> has_error]

\* an element of reply["response"]
Data(has_results, results) == [has_results |-> has_results, results |-> results]

NoReply == Reply("", FALSE, FALSE, <<>>, FALSE, <<>>, FALSE)

\* replies to POST /translate
SubmitReplies ==
    { Reply("", FALSE, TRUE, <<"Hola">>, FALSE, <<>>, FALSE),          \* inline results
      Reply("", FALSE, TRUE, <<"Hola", "Adios">>, FALSE, <<>>, FALSE), \* two inline results
      Reply("op1", FALSE, TRUE, <<"Hola">>, FALSE, <<>>, FALSE),       \* inline results and an id
      Reply("op1", FALSE, FALSE, <<>>, FALSE, <<>>, FALSE),            \* deferred
      Reply("", FALSE, TRUE, <<>>, FALSE, <<>>, FALSE),                \* empty results
      Reply("", FALSE, FALSE, <<>>, FALSE, <<>>, TRUE) }               \* error payload

\* replies to GET /operations/{id}
StatusReplies ==
    { Reply("op1", FALSE, FALSE, <<>>, FALSE, <<>>, FALSE),            \* done = false
      Reply("op1", TRUE, FALSE, <<>>, TRUE, <<Data(TRUE, <<"Hola">>)>>, FALSE),
      Reply("op1", TRUE, FALSE, <<>>, TRUE, <<Data(TRUE, <<"Adios", "Hola">>)>>, FALSE),
      Reply("op1", TRUE, FALSE, <<>>, TRUE, <<Data(FALSE, <<>>)>>, FALSE),  \* no results key
      Reply("op1", TRUE, FALSE, <<>>, TRUE, <<Data(TRUE, <<>>)>>, FALSE),   \* results = []
      Reply("op1", TRUE, FALSE, <<>>, TRUE, <<>>, FALSE),              \* response = []
      Reply("op1", TRUE, FALSE, <<>>, FALSE, <<>>, TRUE) }             \* error payload

Ok(text) == [ok |-> TRUE, text |-> text, msg |-> ""]
Raise(msg) == [ok |-> FALSE, text |-> "", msg |-> msg]

\* `if x:` for an optional string argument: given and not empty
Truthy(x) == x # None /\ x # ""

\* variant of _prepare_payload that tests provider before routing
prepare_payload_provider_first(sync, r, pr) ==
    IF Truthy(pr)
    THEN [async |-> ~sync, routing |-> None, provider |-> pr]
    ELSE IF Truthy(r)
    THEN [async |-> ~sync, routing |-> r, provider |-> None]
    ELSE [async |-> ~sync, routing |-> None, provider |-> default_provider]

\* Translator._prepare_payload: the "service" section
_prepare_payload(sync, r, pr) ==
    IF Truthy(r)
    THEN [async |-> ~sync, routing |-> r, provider |-> None]
    ELSE IF Truthy(pr)
    THEN [async |-> ~sync, routing |-> None, provider |-> pr]
    ELSE [async |-> ~sync, routing |-> None, provider |-> default_provider]

\* variant of _extract_translation_result that takes the last result of a
\* polled response instead of the first
extract_last_result(r, sync) ==
    IF sync
    THEN IF r.has_results
         THEN IF Len(r.results) = 0
              THEN Raise("list index out of range")
              ELSE Ok(r.results[1])
         ELSE Raise("No translation results found in sync response")
    ELSE IF r.has_response /\ Len(r.response) > 0
         THEN LET translation_data == r.response[1] IN
              IF translation_data.has_results
              THEN IF Len(translation_data.results) = 0
                   THEN Raise("list index out of range")
                   ELSE Ok(translation_data.results[Len(translation_data.results)])
              ELSE Ok("")
         ELSE Raise("No translation results found in async response")

\* variant of _extract_translation_result that answers a polled reply without
\* response with the default text instead of raising
extract_default_text(r, sync) ==
    IF sync
    THEN IF r.has_results
         THEN IF Len(r.results) = 0
              THEN Raise("list index out of range")
              ELSE Ok(r.results[1])
         ELSE Raise("No translation results found in sync response")
    ELSE IF r.has_response /\ Len(r.response) > 0
         THEN LET translation_data == r.response[1] IN
              IF translation_data.has_results
              THEN IF Len(translation_data.results) = 0
                   THEN Raise("list index out of range")
                   ELSE Ok(translation_data.results[1])
              ELSE Ok("")
         ELSE Ok("")

\* Translator._extract_translation_result
_extract_translation_result(r, sync) ==
    IF sync
    THEN IF r.has_results
         THEN IF Len(r.results) = 0
              THEN Raise("list index out of range")
              ELSE Ok(r.results[1])
         ELSE Raise("No translation results found in sync response")
    ELSE IF r.has_response /\ Len(r.response) > 0
         THEN LET translation_data == r.response[1] IN
              IF translation_data.has_results
              THEN IF Len(translation_data.results) = 0
                   THEN Raise("list index out of range")
                   ELSE Ok(translation_data.results[1])
              ELSE Ok("")
         ELSE Raise("No translation results found in async response")

\* the tail of Translator.translate: extract, then return or raise
Finish(r, sync) ==
    LET x == _extract_translation_result(r, sync) IN
    /\ jpc' = "done"
    /\ result' = r
    /\ outcome' = IF x.ok THEN "Completed" ELSE "Failed"
    /\ translated_text' = x.text
    /\ error' = IF x.ok THEN "" ELSE "Translation failed: " \o x.msg

\* translate raises: nothing is returned
Fail(msg) ==
    /\ jpc' = "done"
    /\ outcome' = "Failed"
    /\ error' = msg
    /\ UNCHANGED translated_text

JobIdle ==
    /\ jpc = "idle"
    /\ use_sync = FALSE
    /\ polling_frequency = NoFrequency
    /\ payload = _prepare_payload(FALSE, None, None)
    /\ url = ""
    /\ poll_interval = 0
    /\ result = NoReply
    /\ polls = 0
    /\ statuses = <<>>
    /\ slept = 0
    /\ waits = <<>>
    /\ text_tokens = 0
    /\ routing = None
    /\ provider = None
    /\ outcome = "none"
    /\ translated_text = ""
    /\ error = ""

\* Translator.translate up to the POST
Translate ==
    /\ jpc = "idle"
    /\ \E sync \in BOOLEAN, r \in {None, "", "best"}, pr \in {None, "deepl"},
          frequency \in {NoFrequency, Frequency(2)}, tokens \in TextSizes :
          /\ text_tokens' = tokens
          /\ use_sync' = sync
          /\ routing' = r
          /\ provider' = pr
          /\ polling_frequency' = frequency
          /\ payload' = _prepare_payload(sync, r, pr)
          /\ url' = IF sync THEN sync_url ELSE base_url
    /\ jpc' = "post"
    /\ UNCHANGED <<poll_interval, result, polls, statuses, slept, waits, outcome,
                   translated_text, error>>
    /\ UNCHANGED cacheVars
    /\ UNCHANGED hashVars
    /\ UNCHANGED queryVars

\* requests.post fails or raise_for_status raises
PostFails ==
    /\ jpc = "post"
    /\ Fail("Translation request failed")
    /\ UNCHANGED <<text_tokens, use_sync, routing, provider, polling_frequency,
                   payload, url, poll_interval,
                   result, polls, statuses, slept, waits>>
    /\ UNCHANGED cacheVars
    /\ UNCHANGED hashVars
    /\ UNCHANGED queryVars

\* variant of PostReply that polls the operation whenever the reply names
\* one, whatever the mode
PostReplyFollowsId ==
    /\ jpc = "post"
    /\ \E r \in SubmitReplies :
          IF use_sync /\ r.id = ""
          THEN /\ Finish(r, TRUE)
               /\ UNCHANGED poll_interval
          ELSE IF r.id = ""
          THEN /\ Fail("Translation failed: No operation ID received")
               /\ result' = r
               /\ UNCHANGED poll_interval
          ELSE /\ jpc' = "poll"
               /\ result' = r
               /\ poll_interval' = IF ~polling_frequency.is_none
                                   THEN polling_frequency.value
                                   ELSE default_polling_frequency
               /\ UNCHANGED <<outcome, translated_text, error>>
    /\ UNCHANGED <<text_tokens, use_sync, routing, provider, polling_frequency,
                   payload, url, polls, statuses, slept, waits>>
    /\ UNCHANGED cacheVars
    /\ UNCHANGED hashVars
    /\ UNCHANGED queryVars

\* the POST is answered; _make_translation_request up to the first poll
PostReply ==
    /\ jpc = "post"
    /\ \E r \in SubmitReplies :
          IF use_sync
          THEN /\ Finish(r, TRUE)
               /\ UNCHANGED poll_interval
          ELSE IF r.id = ""
          THEN /\ Fail("Translation failed: No operation ID received")
               /\ result' = r
               /\ UNCHANGED poll_interval
          ELSE /\ jpc' = "poll"
               /\ result' = r
               /\ poll_interval' = IF ~polling_frequency.is_none
                                   THEN polling_frequency.value
                                   ELSE default_polling_frequency
               /\ UNCHANGED <<outcome, translated_text, error>>
    /\ UNCHANGED <<text_tokens, use_sync, routing, provider, polling_frequency,
                   payload, url, polls, statuses,
                   slept, waits>>
    /\ UNCHANGED cacheVars
    /\ UNCHANGED hashVars
    /\ UNCHANGED queryVars

\* one iteration of the while loop of _handle_async_response
Poll ==
    /\ jpc = "poll"
    /\ polls < MaxPolls
    /\ polls' = polls + 1
    /\ waits' = Append(waits, slept)
    /\ \E status \in StatusReplies :
          /\ statuses' = Append(statuses, status)
          /\ IF status.done
             THEN /\ Finish(status, FALSE)
                  /\ UNCHANGED slept
             ELSE /\ slept' = poll_interval
                  /\ UNCHANGED <<jpc, result, outcome, translated_text, error>>
    /\ UNCHANGED <<text_tokens, use_sync, routing, provider, polling_frequency,
                   payload, url, poll_interval>>
    /\ UNCHANGED cacheVars
    /\ UNCHANGED hashVars
    /\ UNCHANGED queryVars

\* variant of PollFails in which the loop notes the failed GET and goes on
\* polling
PollFailsRetried ==
    /\ jpc = "poll"
    /\ polls < MaxPolls
    /\ polls' = polls + 1
    /\ waits' = Append(waits, slept)
    /\ error' = "Translation request failed"
    /\ UNCHANGED <<jpc, outcome, translated_text>>
    /\ UNCHANGED <<text_tokens, use_sync, routing, provider, polling_frequency,
                   payload, url, poll_interval,
                   result, statuses, slept>>
    /\ UNCHANGED cacheVars
    /\ UNCHANGED hashVars
    /\ UNCHANGED queryVars

\* the status GET fails or raise_for_status raises
PollFails ==
    /\ jpc = "poll"
    /\ polls < MaxPolls
    /\ polls' = polls + 1
    /\ waits' = Append(waits, slept)
    /\ Fail("Translation request failed")
    /\ UNCHANGED <<text_tokens, use_sync, routing, provider, polling_frequency,
                   payload, url, poll_interval,
                   result, statuses, slept>>
    /\ UNCHANGED cacheVars
    /\ UNCHANGED hashVars
    /\ UNCHANGED queryVars

(***************************************************************************)
(* Product cache (src/product_translator.py)                               *)
(***************************************************************************)
Procs == {1, 2}

\* a localized value {"value": v, "isocode": l}
LV(v, l) == [value |-> v, isocode |-> l]

\* the value a top-level dict holds for a list-valued key: a reference to a
\* list object, whose content is in `lists`.  dict.copy() copies references.
ListRef == "<list>"
LocalizedListFields == {"names", "technicalDescription", "commercialDescription"}

\* every key of the modelled records, in the order json.dumps(sort_keys=True)
\* writes them
SortedKeys ==
    <<"app", "catalogNumber", "categoryList", "categoryList.name", "categoryList.path",
      "code", "commercialDescription", "description", "names", "pira_modified",
      "productLifeCycleStatus", "technicalDescription">>

\* a JSON value of a record: a string, a list of objects, or null
Str(s) == [is_null |-> FALSE, is_list |-> FALSE, str |-> s, items |-> <<>>]
List(items) == [is_null |-> FALSE, is_list |-> TRUE, str |-> "", items |-> items]
Null == [is_null |-> TRUE, is_list |-> FALSE, str |-> "", items |-> <<>>]

Base ==
    [app |-> Str("RA"), catalogNumber |-> Str("ABC123"), code |-> Str("c1"),
     pira_modified |-> Str("2024-01-01T00:00:00")]

\* the product records the API returns, as JSON content
ScalarProduct == Base @@ [description |-> Str("Desc")]
NamesProduct == Base @@ [names |-> List(<<LV("Name", "en")>>)]
TwoNamesProduct == Base @@ [names |-> List(<<LV("Name", "en"), LV("Alias", "en")>>)]
TranslatedProduct ==
    Base @@ [names |-> List(<<LV("Name", "en"), LV("Hola", "es")>>), description |-> Str("")]
CategoryProduct ==
    Base @@ [categoryList |-> List(<<[name |-> "Cat"], [path |-> "a/b"]>>)]

\* ScalarProduct after an edit of its description
ChangedProduct == Base @@ [description |-> Str("Desc2")]

\* ScalarProduct under another catalog number, and under another tenant
OtherCatalogProduct == [ScalarProduct EXCEPT !["catalogNumber"] = Str("XYZ789")]
OtherTenantProduct == [ScalarProduct EXCEPT !["app"] = Str("RB")]

\* a record whose selected fields are all there and all empty
EmptyFieldsProduct ==
    Base @@ [names |-> List(<<>>), description |-> Str(""),
             categoryList |-> List(<<[name |-> ""]>>)]

Products ==
    {ScalarProduct, NamesProduct, TwoNamesProduct, TranslatedProduct, CategoryProduct}

\* the field lists main may be run with (TRANSLATABLE_FIELDS)
PickedFieldLists ==
    { <<"names", "description">>,
      <<"names", "categoryList.name", "categoryList.path", "description">> }

\* the lists the API returns: one product, the same product twice, a
\* product and a later version of it, or two products with the same content
DataLists ==
    { <<r>> : r \in Products } \cup
    { <<ScalarProduct, ScalarProduct>>, <<NamesProduct, NamesProduct>>,
      <<ScalarProduct, ChangedProduct>>, <<ScalarProduct, OtherCatalogProduct>>,
      <<ScalarProduct, OtherTenantProduct>> }

Range(s) == { s[i] : i \in DOMAIN s }

\* response.json(): the top-level dict and the list objects it refers to
ParseDict(content) ==
    [f \in DOMAIN content |-> IF content[f].is_list THEN ListRef ELSE content[f].str]
ParseLists(content) ==
    [f \in { k \in DOMAIN content : content[k].is_list } |-> content[f].items]

\* the JSON content of a dict whose list values live in ls
Content(d, ls) ==
    [f \in DOMAIN d |-> IF d[f] = ListRef THEN List(ls[f]) ELSE Str(d[f])]

\* json.dumps(content, sort_keys=True): the entries in key order
json_dumps(content) ==
    LET keys == SelectSeq(SortedKeys, LAMBDA k : k \in DOMAIN content) IN
    [i \in 1..Len(keys) |-> [key |-> keys[i], value |-> content[keys[i]]]]

\* calculate_hash: md5 of the sorted serialization, md5 taken as injective
calculate_hash(content) == [md5 |-> json_dumps(content)]

\* {field: product_json.get(field) for field in picked_fields if field in product_json}
content_to_hash(product_json, ls, fields) ==
    LET c == Content(product_json, ls) IN
    [f \in Range(fields) \cap DOMAIN product_json |-> c[f]]

\* variant of Matching whose WHERE clause names the hash only
MatchingHashOnly(rows, hash_value, app, catalog_number) ==
    SelectSeq(rows, LAMBDA row : row.hash_value = hash_value)

\* the rows the SELECT of get_cached_translation / cache_translation matches
Matching(rows, hash_value, app, catalog_number) ==
    SelectSeq(rows, LAMBDA row : /\ row.hash_value = hash_value
                                  /\ row.app = app
                                  /\ row.catalog_number = catalog_number)

\* datetime.strptime(s, "%Y-%m-%dT%H:%M:%S"), as seconds after 2024-01-01T00:00:00
strptime(s) ==
    CASE s = "2024-01-01T00:00:00" -> 0
      [] s = "2024-01-01T00:00:01" -> 1
      [] s = "2024-01-01T00:00:02" -> 2

\* replies of the provider to translate_text's POST
ProviderReplies ==
    { Reply("", FALSE, TRUE, <<"Hola">>, FALSE, <<>>, FALSE),
      Reply("", FALSE, TRUE, <<"Ola">>, FALSE, <<>>, FALSE),
      Reply("op1", TRUE, FALSE, <<>>, TRUE, <<Data(FALSE, <<>>)>>, FALSE),
      Reply("", FALSE, FALSE, <<>>, FALSE, <<>>, TRUE) }

\* translate_text: what it returns or raises for a reply
translate_text(r) ==
    IF r.has_results
    THEN IF Len(r.results) = 0
         THEN Raise("list index out of range")
         ELSE Ok(r.results[1])
    ELSE IF r.has_response /\ Len(r.response) > 0
         THEN LET translation_data == r.response[1] IN
              IF translation_data.has_results
              THEN IF Len(translation_data.results) = 0
                   THEN Raise("list index out of range")
                   ELSE Ok(translation_data.results[1])
              ELSE Ok("")
         ELSE Raise("No translation results found in response")

\* json.loads of a serialization written by json_dumps
json_loads(s) ==
    [k \in { s[i].key : i \in DOMAIN s } |->
        s[CHOOSE i \in DOMAIN s : s[i].key = k].value]

\* translated_product.get(field, []) for a list-valued field
GetList(tp, ls, field) == IF field \in DOMAIN tp THEN ls[field] ELSE <<>>

CategoryAttr(field) == IF field = "categoryList.name" THEN "name" ELSE "path"

\* translate_product: what the loop iteration at cursor cur does.
\*   "call"   it awaits translate_text(text, target_lang)
\*   "skip"   the element is passed over
\*   "next"   the inner loop is exhausted (or the field needs nothing)
\*   "return" the outer loop is exhausted
Unit(tp, ls, fields, cur) ==
    LET fi == cur[1]
        ei == cur[2]
        U(kind, text) == [kind |-> kind, text |-> text]
    IN
    IF fi > Len(fields) THEN U("return", "")
    ELSE LET field == fields[fi] IN
         IF field \in LocalizedListFields
         THEN LET L == GetList(tp, ls, field) IN
              IF ei > Len(L) THEN U("next", "")
              ELSE IF L[ei].isocode = "en" THEN U("call", L[ei].value)
              ELSE U("skip", "")
         ELSE IF field \in {"categoryList.name", "categoryList.path"}
         THEN LET L == GetList(tp, ls, "categoryList") IN
              IF ei > Len(L) THEN U("next", "")
              ELSE IF CategoryAttr(field) \in DOMAIN L[ei]
                   THEN U("call", L[ei][CategoryAttr(field)])
                   ELSE U("skip", "")
         ELSE IF field \in DOMAIN tp /\ tp[field] # ""
         THEN U("call", tp[field])
         ELSE U("next", "")

\* variant of Merge that appends a category with the translated attribute
\* instead of overwriting the attribute of the category at hand
MergeAppendsCategory(tp, ls, fields, cur, translated, to_lang) ==
    LET fi == cur[1]
        ei == cur[2]
        field == fields[fi]
    IN
    IF field \in LocalizedListFields
    THEN [tp |-> tp,
          ls |-> [ls EXCEPT ![field] = Append(@, LV(translated, to_lang))],
          cur |-> <<fi, ei + 1>>]
    ELSE IF field \in {"categoryList.name", "categoryList.path"}
    THEN [tp |-> tp,
          ls |-> [ls EXCEPT !["categoryList"] =
                     Append(@, [k \in {CategoryAttr(field)} |-> translated])],
          cur |-> <<fi, ei + 1>>]
    ELSE [tp |-> [tp EXCEPT ![field] = translated],
          ls |-> ls,
          cur |-> <<fi + 1, 1>>]

\* translate_product: the statement that follows `await translate_text(...)`
\* in the iteration at cursor cur, and the cursor of the next iteration
Merge(tp, ls, fields, cur, translated, to_lang) ==
    LET fi == cur[1]
        ei == cur[2]
        field == fields[fi]
    IN
    IF field \in LocalizedListFields
    THEN [tp |-> tp,
          ls |-> [ls EXCEPT ![field] = Append(@, LV(translated, to_lang))],
          cur |-> <<fi, ei + 1>>]
    ELSE IF field \in {"categoryList.name", "categoryList.path"}
    THEN [tp |-> tp,
          ls |-> [ls EXCEPT !["categoryList"][ei][CategoryAttr(field)] = translated],
          cur |-> <<fi, ei + 1>>]
    ELSE [tp |-> [tp EXCEPT ![field] = translated],
          ls |-> ls,
          cur |-> <<fi + 1, 1>>]

\* the cursor of the next iteration that awaits the provider, or the cursor
\* past the last field: the iterations in between run without suspension
RECURSIVE NextAwait(_, _, _, _)
NextAwait(tp, ls, fields, cur) ==
    LET kind == Unit(tp, ls, fields, cur).kind IN
    IF kind = "skip" THEN NextAwait(tp, ls, fields, <<cur[1], cur[2] + 1>>)
    ELSE IF kind = "next" THEN NextAwait(tp, ls, fields, <<cur[1] + 1, 1>>)
    ELSE cur

\* position of main while translate_product runs from cursor cur: suspended
\* in translate_text, or returned and about to call cache_translation
AfterRun(tp, ls, fields, cur) ==
    IF Unit(tp, ls, fields, cur).kind = "return" THEN "select" ELSE "translate"

NotCached == [found |-> FALSE, obj |-> <<>>]

CacheInit ==
    /\ picked_fields \in PickedFieldLists
    /\ target_lang = "es"
    /\ db = <<>>
    /\ dataList \in DataLists
    /\ idx = [p \in Procs |-> 1]
    /\ pc = [p \in Procs |-> "lookup"]
    /\ product = [p \in Procs |-> <<>>]
    /\ translated_product = [p \in Procs |-> <<>>]
    /\ lists = [p \in Procs |-> <<>>]
    /\ cursor = [p \in Procs |-> <<1, 1>>]
    /\ cached_translation = [p \in Procs |-> NotCached]
    /\ select_result = [p \in Procs |-> FALSE]
    /\ calls = [p \in Procs |-> 0]
    /\ raised = [p \in Procs |-> FALSE]
    /\ conns = [p \in Procs |-> 0]
    /\ store_error = [p \in Procs |-> "none"]
    /\ log = [p \in Procs |-> <<>>]

\* the iteration of main's for loop ends: what it did, and on to the next product
EndIteration(p, entry) ==
    /\ log' = [log EXCEPT ![p] = Append(@, entry)]
    /\ idx' = [idx EXCEPT ![p] = @ + 1]
    /\ pc' = [pc EXCEPT ![p] = IF idx[p] + 1 > Len(dataList) THEN "done" ELSE "lookup"]

\* main binds the next product and calls get_cached_translation; on a hit it
\* continues, on a miss translate_product starts with a shallow copy
Lookup(p) ==
    /\ pc[p] = "lookup"
    /\ LET content == dataList[idx[p]]
           d == ParseDict(content)
           ls == ParseLists(content)
           hash_value == calculate_hash(content_to_hash(d, ls, picked_fields))
           rows == Matching(db, hash_value, d["app"], d["catalogNumber"])
           cached == IF Len(rows) > 0
                     THEN [found |-> TRUE, obj |-> json_loads(rows[1].translated_obj)]
                     ELSE NotCached
       IN
       /\ product' = [product EXCEPT ![p] = d]
       /\ lists' = [lists EXCEPT ![p] = ls]
       /\ cached_translation' = [cached_translation EXCEPT ![p] = cached]
       /\ calls' = [calls EXCEPT ![p] = 0]
       /\ IF cached.found /\ DOMAIN cached.obj # {}
          THEN /\ EndIteration(p, [hit |-> TRUE, calls |-> 0, cached |-> FALSE,
                                   inserted |-> FALSE,
                                   lookup_hash |-> hash_value, hash_value |-> hash_value,
                                   held |-> json_dumps(cached.obj)])
               /\ UNCHANGED <<translated_product, cursor>>
          ELSE LET cur == NextAwait(d, ls, picked_fields, <<1, 1>>) IN
               /\ pc' = [pc EXCEPT ![p] = AfterRun(d, ls, picked_fields, cur)]
               /\ translated_product' = [translated_product EXCEPT ![p] = d]
               /\ cursor' = [cursor EXCEPT ![p] = cur]
               /\ UNCHANGED <<log, idx>>
    /\ UNCHANGED <<picked_fields, target_lang, db, dataList, select_result, raised, conns,
                   store_error>>
    /\ UNCHANGED jobVars
    /\ UNCHANGED hashVars
    /\ UNCHANGED queryVars

\* translate_product: the awaited translate_text returns a text; it is merged
\* and the loops run on to the next provider call or to the return
TranslateCall(p) ==
    /\ pc[p] = "translate"
    /\ calls[p] < MaxCalls
    /\ \E r \in ProviderReplies :
          /\ translate_text(r).ok
          /\ LET m == Merge(translated_product[p], lists[p], picked_fields, cursor[p],
                            translate_text(r).text, target_lang)
                 cur == NextAwait(m.tp, m.ls, picked_fields, m.cur)
             IN /\ translated_product' = [translated_product EXCEPT ![p] = m.tp]
                /\ lists' = [lists EXCEPT ![p] = m.ls]
                /\ cursor' = [cursor EXCEPT ![p] = cur]
                /\ pc' = [pc EXCEPT ![p] = AfterRun(m.tp, m.ls, picked_fields, cur)]
    /\ calls' = [calls EXCEPT ![p] = @ + 1]
    /\ UNCHANGED <<picked_fields, target_lang, db, dataList, idx, product,
                   cached_translation, select_result, raised, conns, store_error, log>>
    /\ UNCHANGED jobVars
    /\ UNCHANGED hashVars
    /\ UNCHANGED queryVars

\* variant of TranslateRaise in which the exception is caught around
\* translate_product and main goes on to cache_translation
TranslateRaiseCaught(p) ==
    /\ pc[p] = "translate"
    /\ calls' = [calls EXCEPT ![p] = @ + 1]
    /\ raised' = [raised EXCEPT ![p] = TRUE]
    /\ pc' = [pc EXCEPT ![p] = "select"]
    /\ UNCHANGED <<picked_fields, target_lang, db, dataList, idx, product,
                   translated_product, lists, cursor, cached_translation, select_result,
                   conns, store_error, log>>
    /\ UNCHANGED jobVars
    /\ UNCHANGED hashVars
    /\ UNCHANGED queryVars

\* translate_product: the awaited translate_text raises (no results in the
\* reply, or the request itself fails); the exception leaves translate_product
\* and main, which catch nothing
TranslateRaise(p) ==
    /\ pc[p] = "translate"
    /\ calls[p] < MaxCalls
    /\ \/ \E r \in ProviderReplies : ~translate_text(r).ok
       \/ TRUE
    /\ calls' = [calls EXCEPT ![p] = @ + 1]
    /\ raised' = [raised EXCEPT ![p] = TRUE]
    /\ pc' = [pc EXCEPT ![p] = "crashed"]
    /\ UNCHANGED <<picked_fields, target_lang, db, dataList, idx, product,
                   translated_product, lists, cursor, cached_translation, select_result,
                   conns, store_error, log>>
    /\ UNCHANGED jobVars
    /\ UNCHANGED hashVars
    /\ UNCHANGED queryVars

\* the hash cache_translation computes from its argument product_json
CacheHash(p) == calculate_hash(content_to_hash(product[p], lists[p], picked_fields))

\* cache_translation: the hash and the SELECT
CacheSelect(p) ==
    /\ pc[p] = "select"
    /\ select_result' = [select_result EXCEPT ![p] =
          Len(Matching(db, CacheHash(p), product[p]["app"], product[p]["catalogNumber"])) > 0]
    /\ pc' = [pc EXCEPT ![p] = "insert"]
    /\ conns' = [conns EXCEPT ![p] = @ + 1]
    /\ UNCHANGED <<picked_fields, target_lang, db, dataList, idx, product,
                   translated_product, lists, cursor, cached_translation, calls, raised,
                   store_error, log>>
    /\ UNCHANGED jobVars
    /\ UNCHANGED hashVars
    /\ UNCHANGED queryVars

\* the row cache_translation inserts
NewRow(product_json, ls, translated_json, hash_value) ==
    [app |-> product_json["app"],
     catalog_number |-> product_json["catalogNumber"],
     code |-> product_json["code"],
     status |-> IF "productLifeCycleStatus" \in DOMAIN product_json
                THEN product_json["productLifeCycleStatus"] ELSE "UNKNOWN",
     translated_obj |-> json_dumps(Content(translated_json, ls)),
     hash_value |-> hash_value,
     pira_modified |-> strptime(product_json["pira_modified"])]

\* variant of CacheInsert that keeps one row per (app, catalog number): the
\* row of an older fingerprint is overwritten
CacheInsertReplace(p) ==
    /\ pc[p] = "insert"
    /\ LET row == NewRow(product[p], lists[p], translated_product[p], CacheHash(p))
           old == { i \in DOMAIN db : /\ db[i].app = row.app
                                      /\ db[i].catalog_number = row.catalog_number }
       IN db' = IF select_result[p] THEN db
                ELSE IF old = {} THEN Append(db, row)
                ELSE [i \in DOMAIN db |-> IF i \in old THEN row ELSE db[i]]
    /\ EndIteration(p, [hit |-> FALSE, calls |-> calls[p], cached |-> TRUE,
                        inserted |-> ~select_result[p],
                        lookup_hash |-> calculate_hash(content_to_hash(
                            ParseDict(dataList[idx[p]]), ParseLists(dataList[idx[p]]),
                            picked_fields)),
                        hash_value |-> CacheHash(p),
                        held |-> json_dumps(Content(translated_product[p], lists[p]))])
    /\ conns' = [conns EXCEPT ![p] = @ - 1]
    /\ UNCHANGED <<picked_fields, target_lang, dataList, product, translated_product,
                   lists, cursor, cached_translation, select_result, calls, raised,
                   store_error>>
    /\ UNCHANGED jobVars
    /\ UNCHANGED hashVars
    /\ UNCHANGED queryVars

\* cache_translation: `if not result:` INSERT and commit; then main goes on
CacheInsert(p) ==
    /\ pc[p] = "insert"
    /\ db' = IF ~select_result[p]
             THEN Append(db, NewRow(product[p], lists[p], translated_product[p], CacheHash(p)))
             ELSE db
    /\ EndIteration(p, [hit |-> FALSE, calls |-> calls[p], cached |-> TRUE,
                        inserted |-> ~select_result[p],
                        lookup_hash |-> calculate_hash(content_to_hash(
                            ParseDict(dataList[idx[p]]), ParseLists(dataList[idx[p]]),
                            picked_fields)),
                        hash_value |-> CacheHash(p),
                        held |-> json_dumps(Content(translated_product[p], lists[p]))])
    /\ conns' = [conns EXCEPT ![p] = @ - 1]
    /\ UNCHANGED <<picked_fields, target_lang, dataList, product, translated_product,
                   lists, cursor, cached_translation, select_result, calls, raised,
                   store_error>>
    /\ UNCHANGED jobVars
    /\ UNCHANGED hashVars
    /\ UNCHANGED queryVars

\* the exception a store operation raises leaves the function and main
StoreRaise(p, operation) ==
    /\ store_error' = [store_error EXCEPT ![p] = operation]
    /\ pc' = [pc EXCEPT ![p] = "crashed"]

\* variant of LookupFails in which the failed lookup counts as a miss:
\* get_cached_translation returns None and main goes on to translate_product
LookupFailsAsMiss(p) ==
    /\ pc[p] = "lookup"
    /\ LET d == ParseDict(dataList[idx[p]])
           ls == ParseLists(dataList[idx[p]])
           cur == NextAwait(d, ls, picked_fields, <<1, 1>>)
       IN
       /\ product' = [product EXCEPT ![p] = d]
       /\ lists' = [lists EXCEPT ![p] = ls]
       /\ translated_product' = [translated_product EXCEPT ![p] = d]
       /\ cursor' = [cursor EXCEPT ![p] = cur]
       /\ pc' = [pc EXCEPT ![p] = AfterRun(d, ls, picked_fields, cur)]
    /\ calls' = [calls EXCEPT ![p] = 0]
    /\ store_error' = [store_error EXCEPT ![p] = "lookup"]
    /\ UNCHANGED <<picked_fields, target_lang, db, dataList, idx, cached_translation,
                   select_result, raised, conns, log>>
    /\ UNCHANGED jobVars
    /\ UNCHANGED hashVars
    /\ UNCHANGED queryVars

\* main binds the next product and calls get_cached_translation, which
\* raises: in get_db_connection (nothing was opened), or in cursor.execute
\* or fetchone (the connection is open, and the close calls are not reached)
LookupFails(p) ==
    /\ pc[p] = "lookup"
    /\ product' = [product EXCEPT ![p] = ParseDict(dataList[idx[p]])]
    /\ lists' = [lists EXCEPT ![p] = ParseLists(dataList[idx[p]])]
    /\ calls' = [calls EXCEPT ![p] = 0]
    /\ \E opened \in BOOLEAN :
          conns' = [conns EXCEPT ![p] = IF opened THEN @ + 1 ELSE @]
    /\ StoreRaise(p, "lookup")
    /\ UNCHANGED <<picked_fields, target_lang, db, dataList, idx, translated_product,
                   cursor, cached_translation, select_result, raised, log>>
    /\ UNCHANGED jobVars
    /\ UNCHANGED hashVars
    /\ UNCHANGED queryVars

\* cache_translation raises before its SELECT has returned: in
\* get_db_connection, or in cursor.execute or fetchone
CacheSelectFails(p) ==
    /\ pc[p] = "select"
    /\ \E opened \in BOOLEAN :
          conns' = [conns EXCEPT ![p] = IF opened THEN @ + 1 ELSE @]
    /\ StoreRaise(p, "select")
    /\ UNCHANGED <<picked_fields, target_lang, db, dataList, idx, product,
                   translated_product, lists, cursor, cached_translation, select_result,
                   calls, raised, log>>
    /\ UNCHANGED jobVars
    /\ UNCHANGED hashVars
    /\ UNCHANGED queryVars

\* cache_translation raises after its SELECT: in the INSERT (strptime,
\* cursor.execute) or in conn.commit; nothing is committed and the close
\* calls are not reached
CacheInsertFails(p) ==
    /\ pc[p] = "insert"
    /\ StoreRaise(p, "insert")
    /\ UNCHANGED <<picked_fields, target_lang, db, dataList, idx, product,
                   translated_product, lists, cursor, cached_translation, select_result,
                   calls, raised, conns, log>>
    /\ UNCHANGED jobVars
    /\ UNCHANGED hashVars
    /\ UNCHANGED queryVars

\* a caller calls translate_product(product_json, picked_fields,
\* target_lang): the shallow copy, and the loops up to the first provider
\* call or to the return (position "select": what main does next)
TranslateProduct(p) ==
    /\ pc[p] = "call"
    /\ LET d == ParseDict(dataList[idx[p]])
           ls == ParseLists(dataList[idx[p]])
           cur == NextAwait(d, ls, picked_fields, <<1, 1>>)
       IN
       /\ product' = [product EXCEPT ![p] = d]
       /\ lists' = [lists EXCEPT ![p] = ls]
       /\ translated_product' = [translated_product EXCEPT ![p] = d]
       /\ cursor' = [cursor EXCEPT ![p] = cur]
       /\ pc' = [pc EXCEPT ![p] = AfterRun(d, ls, picked_fields, cur)]
    /\ calls' = [calls EXCEPT ![p] = 0]
    /\ UNCHANGED <<picked_fields, target_lang, db, dataList, idx, cached_translation,
                   select_result, raised, conns, store_error, log>>
    /\ UNCHANGED jobVars
    /\ UNCHANGED hashVars
    /\ UNCHANGED queryVars

(***************************************************************************)
(* The fingerprint of a record, with the key order of every dict explicit  *)
(* (src/product_translator.py: calculate_hash and the two functions that   *)
(* call it)                                                                *)
(***************************************************************************)
\* a Python dict: its keys in insertion order, and the value of each key
Dict(keys, val) == [keys |-> keys, val |-> val]

\* every key of a record or of an object of its lists, in the order
\* sort_keys=True puts them
AllSortedKeys ==
    <<"app", "catalogNumber", "categoryList", "categoryList.name", "categoryList.path",
      "code", "commercialDescription", "description", "isocode", "name", "names", "path",
      "pira_modified", "productLifeCycleStatus", "technicalDescription", "value">>

\* variant of sort_keys: json.dumps without sort_keys=True writes the keys
\* of a dict in insertion order
insertion_order(keys) == keys

\* the order in which json.dumps(..., sort_keys=True) writes the keys of a dict
sort_keys(keys) == SelectSeq(AllSortedKeys, LAMBDA k : k \in Range(keys))

\* json.dumps of an object of a list
dumps_item(item) ==
    LET ks == sort_keys(item.keys) IN
    [i \in 1..Len(ks) |-> [key |-> ks[i], value |-> item.val[ks[i]]]]

\* json.dumps of a value: a string, null, or a list of objects
dumps_value(v) ==
    [is_null |-> v.is_null, is_list |-> v.is_list, str |-> v.str,
     items |-> [i \in 1..Len(v.items) |-> dumps_item(v.items[i])]]

\* json.dumps(content, sort_keys=True)
dumps(content) ==
    LET ks == sort_keys(content.keys) IN
    [i \in 1..Len(ks) |-> [key |-> ks[i], value |-> dumps_value(content.val[ks[i]])]]

\* variant of select_fields: every picked field gets an entry, null when the
\* record does not have it
select_fields_padded(product_json, fields) ==
    Dict(fields,
         [f \in Range(fields) |->
             IF f \in Range(product_json.keys) THEN product_json.val[f] ELSE Null])

\* {field: product_json.get(field) for field in picked_fields if field in
\* product_json}: the picked fields the record has, in the order of
\* picked_fields
select_fields(product_json, fields) ==
    Dict(SelectSeq(fields, LAMBDA f : f \in Range(product_json.keys)),
         [f \in Range(fields) \cap Range(product_json.keys) |-> product_json.val[f]])

\* hash_value as both cache functions compute it, md5 taken as injective
hash_of(product_json, fields) == [md5 |-> dumps(select_fields(product_json, fields))]

\* objects of the localized lists, with their keys in either order
NameItem == Dict(<<"value", "isocode">>, LV("Name", "en"))
NameItemReordered == Dict(<<"isocode", "value">>, LV("Name", "en"))
CategoryItem(name) == Dict(<<"name">>, [name |-> name])

\* a record with code, names and description
NamesRecord(keys, code, item, description) ==
    Dict(keys, [code |-> Str(code), names |-> List(<<item>>), description |-> description])

\* a record with code, categoryList and description
CategoryRecord(name) ==
    Dict(<<"code", "categoryList", "description">>,
         [code |-> Str("c1"), categoryList |-> List(<<CategoryItem(name)>>),
          description |-> Str("Desc")])

\* the records a fingerprint is taken of
HashRecords ==
    { NamesRecord(<<"code", "names", "description">>, "c1", NameItem, Str("Desc")),
      NamesRecord(<<"description", "names", "code">>, "c1", NameItem, Str("Desc")),
      NamesRecord(<<"code", "names", "description">>, "c1", NameItemReordered, Str("Desc")),
      NamesRecord(<<"code", "names", "description">>, "c1", NameItem, Str("Desc2")),
      NamesRecord(<<"code", "names", "description">>, "c2", NameItem, Str("Desc")),
      NamesRecord(<<"code", "names", "description">>, "c1", NameItem, Null),
      Dict(<<"names", "description">>,
           [names |-> List(<<NameItem>>), description |-> Str("Desc")]),
      Dict(<<"code", "names">>, [code |-> Str("c1"), names |-> List(<<NameItem>>)]),
      CategoryRecord("Cat"),
      CategoryRecord("Dog") }

NoHash == [md5 |-> <<>>]

\* cache_translation computes hash_value of record i
CacheFingerprint(i) ==
    /\ i \in DOMAIN records
    /\ ~hashed[i].cache
    /\ hashes' = [hashes EXCEPT ![i].cache = hash_of(records[i], picked_fields)]
    /\ hashed' = [hashed EXCEPT ![i].cache = TRUE]
    /\ UNCHANGED records
    /\ UNCHANGED <<jobVars, cacheVars>>
    /\ UNCHANGED queryVars

\* get_cached_translation computes hash_value of record i
LookupFingerprint(i) ==
    /\ i \in DOMAIN records
    /\ ~hashed[i].lookup
    /\ hashes' = [hashes EXCEPT ![i].lookup = hash_of(records[i], picked_fields)]
    /\ hashed' = [hashed EXCEPT ![i].lookup = TRUE]
    /\ UNCHANGED records
    /\ UNCHANGED <<jobVars, cacheVars>>
    /\ UNCHANGED queryVars

(***************************************************************************)
(* Queries on the cache table (src/query_translations.py)                  *)
(***************************************************************************)
\* the row cache_translation stores for a record that has nothing to translate
StoredRow(content) ==
    LET d == ParseDict(content)
        ls == ParseLists(content)
    IN NewRow(d, ls, d, calculate_hash(content_to_hash(d, ls, <<"names", "description">>)))

\* a record of the given catalog number and source-modified time
Record(catalog_number, modified) ==
    [Base EXCEPT !["catalogNumber"] = Str(catalog_number),
                 !["pira_modified"] = Str(modified)]

\* rows translators insert while the queries run
QueryRows ==
    { StoredRow(Record("A1", "2024-01-01T00:00:00")),
      StoredRow(Record("B2", "2024-01-01T00:00:01")),
      StoredRow(Record("C3", "2024-01-01T00:00:01")),
      StoredRow(Record("D4", "2024-01-01T00:00:02")) }

\* the values limit is called with
Limits == {1, 2, 4}

\* the orders in which a sequence can list the numbers 1..n
Orders(n) == { s \in [1..n -> 1..n] : \A i \in 1..n : \E k \in 1..n : s[k] = i }

\* variant of order_by_desc: ORDER BY pira_modified ASC
order_by_asc(rows) ==
    { s \in Orders(Len(rows)) :
        \A i \in 1..Len(rows), j \in 1..Len(rows) :
            i < j => rows[s[i]].pira_modified <= rows[s[j]].pira_modified }

\* order_by(Translation.pira_modified.desc()): the orders in which the query
\* may list the rows (rows of equal time come in any order)
order_by_desc(rows) ==
    { s \in Orders(Len(rows)) :
        \A i \in 1..Len(rows), j \in 1..Len(rows) :
            i < j => rows[s[i]].pira_modified >= rows[s[j]].pira_modified }

\* .limit(limit): the first n of a listing
first_rows(s, n) == SubSeq(s, 1, IF n < Len(s) THEN n ELSE Len(s))

\* the dict get_recent_translations builds of a row
result_of(t) ==
    [catalog_number |-> t.catalog_number,
     translated_obj |-> json_loads(t.translated_obj),
     pira_modified |-> t.pira_modified,
     hash_value |-> t.hash_value]

\* a translator commits one more row
QueryInsert ==
    /\ Len(db) < MaxRows
    /\ \E row \in QueryRows : db' = Append(db, row)
    /\ UNCHANGED <<picked_fields, target_lang, dataList, idx, pc, product,
                   translated_product, lists, cursor, cached_translation, select_result,
                   calls, raised, conns, store_error, log>>
    /\ UNCHANGED <<jobVars, hashVars, queryVars>>

\* one call of get_recent_translations(limit)
GetRecent ==
    /\ queries < MaxQueries
    /\ \E n \in Limits, s \in order_by_desc(db) :
          LET translations == first_rows(s, n) IN
          /\ limit' = n
          /\ recent' = [i \in 1..Len(translations) |-> result_of(db[translations[i]])]
    /\ queried' = db
    /\ queries' = queries + 1
    /\ UNCHANGED <<jobVars, cacheVars, hashVars>>

(***************************************************************************)
(* Specifications                                                          *)
(***************************************************************************)
\* no fingerprint is being taken
HashIdle ==
    /\ records = <<>>
    /\ hashes = <<>>
    /\ hashed = <<>>

\* get_recent_translations has not been called
QueryIdle ==
    /\ limit = 0
    /\ recent = <<>>
    /\ queried = <<>>
    /\ queries = 0

Init == CacheInit /\ JobIdle /\ HashIdle /\ QueryIdle

Next ==
    \E p \in Procs :
       \/ Lookup(p)
       \/ TranslateCall(p)
       \/ TranslateRaise(p)
       \/ CacheSelect(p)
       \/ CacheInsert(p)
       \/ LookupFails(p)
       \/ CacheSelectFails(p)
       \/ CacheInsertFails(p)

Spec == Init /\ [][Next]_vars

\* the inputs main is run with stay fixed while a translation job runs
JobInit ==
    /\ JobIdle
    /\ HashIdle
    /\ QueryIdle
    /\ picked_fields = <<"names", "description">>
    /\ db = <<>>
    /\ target_lang = "es"
    /\ dataList = <<ScalarProduct>>
    /\ idx = [p \in Procs |-> 1]
    /\ pc = [p \in Procs |-> "lookup"]
    /\ product = [p \in Procs |-> <<>>]
    /\ translated_product = [p \in Procs |-> <<>>]
    /\ lists = [p \in Procs |-> <<>>]
    /\ cursor = [p \in Procs |-> <<1, 1>>]
    /\ cached_translation = [p \in Procs |-> NotCached]
    /\ select_result = [p \in Procs |-> FALSE]
    /\ calls = [p \in Procs |-> 0]
    /\ raised = [p \in Procs |-> FALSE]
    /\ conns = [p \in Procs |-> 0]
    /\ store_error = [p \in Procs |-> "none"]
    /\ log = [p \in Procs |-> <<>>]

\* one call of translate_product, with any target language
TargetLangs == {"es", "en"}

TranslateInit ==
    /\ JobIdle
    /\ HashIdle
    /\ QueryIdle
    /\ picked_fields \in PickedFieldLists
    /\ target_lang \in TargetLangs
    /\ db = <<>>
    /\ dataList \in { <<r>> : r \in Products \cup {EmptyFieldsProduct} }
    /\ idx = [p \in Procs |-> 1]
    /\ pc = [p \in Procs |-> IF p = 1 THEN "call" ELSE "done"]
    /\ product = [p \in Procs |-> <<>>]
    /\ translated_product = [p \in Procs |-> <<>>]
    /\ lists = [p \in Procs |-> <<>>]
    /\ cursor = [p \in Procs |-> <<1, 1>>]
    /\ cached_translation = [p \in Procs |-> NotCached]
    /\ select_result = [p \in Procs |-> FALSE]
    /\ calls = [p \in Procs |-> 0]
    /\ raised = [p \in Procs |-> FALSE]
    /\ conns = [p \in Procs |-> 0]
    /\ store_error = [p \in Procs |-> "none"]
    /\ log = [p \in Procs |-> <<>>]

TranslateNext ==
    \E p \in Procs :
       \/ TranslateProduct(p)
       \/ TranslateCall(p)
       \/ TranslateRaise(p)

TranslateSpec == TranslateInit /\ [][TranslateNext]_vars

\* the two cache functions take the fingerprint of two records
HashInit ==
    /\ JobIdle
    /\ QueryIdle
    /\ picked_fields \in PickedFieldLists
    /\ target_lang = "es"
    /\ db = <<>>
    /\ dataList = <<ScalarProduct>>
    /\ idx = [p \in Procs |-> 1]
    /\ pc = [p \in Procs |-> "lookup"]
    /\ product = [p \in Procs |-> <<>>]
    /\ translated_product = [p \in Procs |-> <<>>]
    /\ lists = [p \in Procs |-> <<>>]
    /\ cursor = [p \in Procs |-> <<1, 1>>]
    /\ cached_translation = [p \in Procs |-> NotCached]
    /\ select_result = [p \in Procs |-> FALSE]
    /\ calls = [p \in Procs |-> 0]
    /\ raised = [p \in Procs |-> FALSE]
    /\ conns = [p \in Procs |-> 0]
    /\ store_error = [p \in Procs |-> "none"]
    /\ log = [p \in Procs |-> <<>>]
    /\ records \in HashRecords \X HashRecords
    /\ hashes = [i \in 1..2 |-> [cache |-> NoHash, lookup |-> NoHash]]
    /\ hashed = [i \in 1..2 |-> [cache |-> FALSE, lookup |-> FALSE]]

HashNext == \E i \in 1..2 : CacheFingerprint(i) \/ LookupFingerprint(i)

HashSpec == HashInit /\ [][HashNext]_vars

\* get_recent_translations is called while translators insert rows
QueryInit ==
    /\ JobIdle
    /\ HashIdle
    /\ QueryIdle
    /\ picked_fields = <<"names", "description">>
    /\ target_lang = "es"
    /\ db = <<>>
    /\ dataList = <<ScalarProduct>>
    /\ idx = [p \in Procs |-> 1]
    /\ pc = [p \in Procs |-> "lookup"]
    /\ product = [p \in Procs |-> <<>>]
    /\ translated_product = [p \in Procs |-> <<>>]
    /\ lists = [p \in Procs |-> <<>>]
    /\ cursor = [p \in Procs |-> <<1, 1>>]
    /\ cached_translation = [p \in Procs |-> NotCached]
    /\ select_result = [p \in Procs |-> FALSE]
    /\ calls = [p \in Procs |-> 0]
    /\ raised = [p \in Procs |-> FALSE]
    /\ conns = [p \in Procs |-> 0]
    /\ store_error = [p \in Procs |-> "none"]
    /\ log = [p \in Procs |-> <<>>]

QueryNext == QueryInsert \/ GetRecent

QuerySpec == QueryInit /\ [][QueryNext]_vars

JobNext == Translate \/ PostFails \/ PostReply \/ Poll \/ PollFails

JobSpec == JobInit /\ [][JobNext]_vars

(***************************************************************************)
(* Properties of the translation job (checked under JobSpec)               *)
(***************************************************************************)
\* status poll k is the first that reports done=true, and it carries a
\* response whose first element has results
HappyAt(k) ==
    /\ statuses[k].done
    /\ statuses[k].has_response
    /\ Len(statuses[k].response) > 0
    /\ statuses[k].response[1].has_results
    /\ Len(statuses[k].response[1].results) > 0
    /\ \A i \in 1..(k - 1) : ~statuses[i].done

\* status poll k is the first that reports done=true, and it carries an
\* explicit error payload
ErrorAt(k) ==
    /\ statuses[k].done
    /\ statuses[k].has_error
    /\ \A i \in 1..(k - 1) : ~statuses[i].done

\* C5: a job whose polls never report done=true is polled at most 10 times
\* (and then times out).
BackoffBound == polls <= 10

\* C6: once the reply to the submission carries inline results, the job is
\* Completed with the first inline result as text and no status poll has been
\* issued, in synchronous and in asynchronous mode.
SyncShortCircuit ==
    (jpc \in {"poll", "done"} /\ result.has_results /\ Len(result.results) > 0)
        => /\ outcome = "Completed"
           /\ translated_text = result.results[1]
           /\ polls = 0

\* C7: if status poll k is the first to report done=true with a non-empty
\* response, then exactly k polls have been issued, now and ever after, and the
\* job is Completed with the first result of that response as text.
AsyncHappyPath ==
    \A k \in DOMAIN statuses :
        HappyAt(k) => /\ polls = k
                      /\ Len(statuses) = k
                      /\ jpc = "done"
                      /\ outcome = "Completed"
                      /\ translated_text = statuses[k].response[1].results[1]

\* C7 witness: the second poll was the first to report done=true, and the job
\* completed with "Hola" after two polls
AsyncHappyPathWitness ==
    /\ Len(statuses) = 2
    /\ HappyAt(2)
    /\ polls = 2
    /\ outcome = "Completed"
    /\ translated_text = "Hola"

\* C10: if status poll k reports done=true with an error payload, the job is
\* Failed at that poll: exactly k polls are issued, now and ever after, the
\* caller gets an exception and no text; and a job all of whose polls report
\* done=false is never in that Failed outcome.
ErrorPayloadFails ==
    /\ \A k \in DOMAIN statuses :
          ErrorAt(k) => /\ polls = k
                        /\ Len(statuses) = k
                        /\ jpc = "done"
                        /\ outcome = "Failed"
                        /\ translated_text = ""
                        /\ error = "Translation failed: No translation results found in async response"
    /\ (polls = Len(statuses) /\ \A i \in DOMAIN statuses : ~statuses[i].done)
          => (jpc = "poll" => outcome = "none")

\* C10 witness: the second poll reported done=true with an error payload and
\* the job failed
ErrorPayloadFailsWitness ==
    /\ Len(statuses) = 2
    /\ ErrorAt(2)
    /\ outcome = "Failed"
    /\ jpc = "done"

\* C11: a call that asks for synchronous mode with a text of at least
\* SyncTokenCeiling tokens is submitted as an asynchronous request: the
\* payload has async true and the POST goes to the asynchronous endpoint,
\* from before the request is sent.
SizeThresholdRule ==
    (jpc # "idle" /\ use_sync /\ text_tokens >= SyncTokenCeiling)
        => (payload.async /\ url = base_url)

\* 2^n
RECURSIVE Pow2(_)
Pow2(n) == IF n = 0 THEN 1 ELSE 2 * Pow2(n - 1)

\* C20: the wait before status poll number attempt+1 is
\* poll_interval * 2^attempt, attempt counting from 0: the first poll comes
\* after an initial delay and successive waits double.
ExponentialPollSchedule ==
    \A k \in DOMAIN waits : waits[k] = poll_interval * Pow2(k - 1)

\* the reply lacks the results the mode expects: no results on a synchronous
\* reply, or a polled done=true response whose first element has no results
LacksResults(r, sync) ==
    IF sync THEN ~r.has_results
    ELSE /\ r.done
         /\ r.has_response
         /\ Len(r.response) > 0
         /\ ~r.response[1].has_results

\* C21: a job whose final reply lacks the expected results ends Failed:
\* translate raises and returns no text, in particular not the empty string
\* as a successful translation.
MalformedResponseFails ==
    (jpc = "done" /\ LacksResults(result, use_sync))
        => (outcome = "Failed" /\ error # "")

\* C22: once the POST or a status GET has failed, the job is over and
\* Failed, translate has raised and returned no text, and no request is
\* issued any more; a failed POST leaves the job with zero polls, a failed
\* GET was the last poll.
RequestFailed == error = "Translation request failed"
RequestFailureStep == RequestFailed => (polls' = polls /\ jpc' = jpc /\ outcome' = outcome)
RequestFailureEndsJob ==
    /\ [](RequestFailed =>
            /\ jpc = "done"
            /\ outcome = "Failed"
            /\ translated_text = ""
            /\ result = NoReply => polls = 0
            /\ result # NoReply => polls = Len(statuses) + 1)
    /\ [][RequestFailureStep]_vars

\* C22 witness: the third status poll failed, after two polls that were
\* answered
RequestFailureEndsJobWitness ==
    /\ RequestFailed
    /\ polls = 3
    /\ Len(statuses) = 2

\* C26: the service section of the submitted payload names the routing if
\* the caller gave one, else the caller's provider if there is one, else the
\* default provider, and never both a routing and a provider; its async flag
\* is the negation of use_sync; and the request goes to the synchronous
\* endpoint exactly when use_sync is true.
PayloadService ==
    jpc # "idle" =>
        /\ payload.async = ~use_sync
        /\ (payload.routing # None) # (payload.provider # None)
        /\ Truthy(routing) => (payload.routing = routing /\ payload.provider = None)
        /\ (~Truthy(routing) /\ Truthy(provider)) => payload.provider = provider
        /\ (~Truthy(routing) /\ ~Truthy(provider)) => payload.provider = default_provider
        /\ url = (IF use_sync THEN sync_url ELSE base_url)
        /\ sync_url # base_url

\* C26 witness: a synchronous request whose caller gave both a routing and a
\* provider has been built
PayloadServiceWitness ==
    /\ jpc = "post"
    /\ use_sync
    /\ routing = "best"
    /\ provider = "deepl"

\* C27: a job submitted in synchronous mode never polls: it is waiting for
\* the reply to its POST or it is over, Completed or Failed, with zero polls.
SyncNeverPolls ==
    (use_sync /\ jpc # "idle") =>
        /\ polls = 0
        /\ statuses = <<>>
        /\ jpc \in {"post", "done"}
        /\ jpc = "done" => outcome \in {"Completed", "Failed"}

\* C27 witness: a synchronous job whose reply named an operation is over
\* without a poll
SyncNeverPollsWitness ==
    /\ use_sync
    /\ jpc = "done"
    /\ result.id = "op1"
    /\ polls = 0

(***************************************************************************)
(* Properties of the product cache (checked under Spec)                    *)
(***************************************************************************)
\* the entries of the log of p in which cache_translation ran
Cached(p) == { i \in DOMAIN log[p] : log[p][i].cached }

\* C1: the store never holds two rows for one (app, catalog number,
\* fingerprint) triple.
AtMostOneWrite ==
    \A i \in DOMAIN db :
        Len(Matching(db, db[i].hash_value, db[i].app, db[i].catalog_number)) = 1

\* C2: two processes that both translated the same record after a miss on the
\* same fingerprint end up holding the same translated record.
SingleCanonicalTranslation ==
    \A p \in Procs, q \in Procs :
        \A i \in Cached(p) \cap Cached(q) :
            log[p][i].lookup_hash = log[q][i].lookup_hash
                => log[p][i].held = log[q][i].held

\* C3: when a process meets again a product it has translated and cached, the
\* second pass is a cache hit without provider call that yields the record of
\* the first pass.
CacheIdempotence ==
    \A p \in Procs :
        \A i \in DOMAIN log[p], j \in DOMAIN log[p] :
            (i < j /\ dataList[i] = dataList[j] /\ log[p][i].cached)
                => /\ log[p][j].hit
                   /\ log[p][j].calls = 0
                   /\ log[p][j].held = log[p][i].held

\* C4: the fingerprint cache_translation stores is the fingerprint
\* get_cached_translation computed for the record before translate_product ran.
FingerprintOfSource ==
    \A p \in Procs :
        \A i \in Cached(p) : log[p][i].hash_value = log[p][i].lookup_hash

\* the positions of list L that hold an entry of locale l
WithLocale(L, l) == { i \in DOMAIN L : L[i].isocode = l }

\* C8: once translate_product has returned, no localized-value list of the
\* record has two entries of the target locale.
NoDuplicateLocales ==
    \A p \in Procs :
        pc[p] \in {"select", "insert"}
            => \A f \in DOMAIN lists[p] \cap LocalizedListFields :
                  Cardinality(WithLocale(lists[p][f], "es")) <= 1

\* the number of rows the logged iterations of the processes in S inserted
RECURSIVE Inserted(_)
Inserted(S) ==
    IF S = {} THEN 0
    ELSE LET p == CHOOSE x \in S : TRUE IN
         Cardinality({ i \in DOMAIN log[p] : log[p][i].inserted }) + Inserted(S \ {p})

\* C9: when a call of translate_text raises (the reply has neither results
\* nor a non-empty response, or the request fails), the processing of the
\* record stops there for good and inserts no row: the process is out of main
\* with no finished iteration for the record, and every row of the store
\* belongs to an iteration that finished.
NoPartialCacheWrites ==
    /\ \A p \in Procs :
          raised[p] => /\ pc[p] = "crashed"
                       /\ Len(log[p]) = idx[p] - 1
                       /\ idx[p] <= Len(dataList)
    /\ Len(db) = Inserted(Procs)

\* C9 witness: a process failed on the second unit of a record after the first
\* unit had been merged
NoPartialCacheWritesWitness ==
    \E p \in Procs :
        /\ raised[p]
        /\ calls[p] = 2
        /\ pc[p] = "crashed"
        /\ Len(lists[p]["names"]) = 3

\* C15: a committed row is never modified or deleted: every step leaves the
\* rows already in the table as they are, at their place, and only adds
\* rows; and the fingerprint of every record that went through
\* cache_translation has a row, so a changed record gets a row of its own
\* next to the row of its older content.
WriteOnceStep ==
    /\ Len(db') >= Len(db)
    /\ \A i \in DOMAIN db : db'[i] = db[i]
WriteOnce ==
    /\ [][WriteOnceStep]_vars
    /\ [](\A p \in Procs : \A i \in Cached(p) :
             \E j \in DOMAIN db : db[j].hash_value = log[p][i].hash_value)

\* C15 witness: a process cached a record and then a changed version of it,
\* and the table holds the rows of both fingerprints
WriteOnceWitness ==
    \E p \in Procs :
        /\ Len(log[p]) = 2
        /\ log[p][1].inserted /\ log[p][2].inserted
        /\ log[p][1].lookup_hash # log[p][2].lookup_hash
        /\ \E i \in DOMAIN db, j \in DOMAIN db :
              /\ i < j
              /\ db[i].hash_value = log[p][1].hash_value
              /\ db[j].hash_value = log[p][2].hash_value
              /\ db[i].catalog_number = db[j].catalog_number

\* C16: outside a running call of cache_translation a process holds no open
\* connection: every connection the two cache functions open is closed when
\* the call is left, by return or by exception.
ConnectionsClosed ==
    \A p \in Procs : pc[p] # "insert" => conns[p] = 0

\* C17: a store operation that raised ends the processing of the process:
\* the record is logged neither as a hit nor as a miss that was translated,
\* and after a failed lookup no provider call was issued for the record.
StoreFailureAborts ==
    \A p \in Procs :
        store_error[p] # "none" =>
            /\ pc[p] = "crashed"
            /\ Len(log[p]) = idx[p] - 1
            /\ store_error[p] = "lookup" => (calls[p] = 0 /\ ~raised[p])

\* C17 witness: the lookup of one process failed on its second record, and
\* the insert of the other process failed
StoreFailureAbortsWitness ==
    \E p \in Procs, q \in Procs :
        /\ store_error[p] = "lookup" /\ idx[p] = 2
        /\ store_error[q] = "insert"

\* C18: once translate_product has returned or failed, the record the caller
\* passed in has the content it had when it was fetched.
InputRecordUnchanged ==
    \A p \in Procs :
        (pc[p] \in {"select", "insert"} \/ (pc[p] = "crashed" /\ raised[p]))
            => Content(product[p], lists[p]) = dataList[idx[p]]

\* a step in which a process at the lookup of main moves on
LookupStep ==
    \E p \in Procs : pc[p] = "lookup" /\ (pc'[p] # "lookup" \/ idx'[p] # idx[p])

\* C25: every hit of get_cached_translation hands out the translated record
\* of a row whose app, catalog number and hash are those of the record that
\* was looked up, so never the row of another tenant or catalog number with
\* the same fingerprint; and a lookup leaves the table as it is.
LookupByFullKey ==
    /\ [](\A p \in Procs : \A i \in DOMAIN log[p] :
             log[p][i].hit =>
                 \E j \in DOMAIN db :
                     /\ db[j].hash_value = log[p][i].lookup_hash
                     /\ db[j].app = dataList[i]["app"].str
                     /\ db[j].catalog_number = dataList[i]["catalogNumber"].str
                     /\ db[j].translated_obj = log[p][i].held)
    /\ [][LookupStep => db' = db]_vars

\* C25 witness: a process cached a record, then looked up a record of
\* another catalog number with the same fingerprint, missed, and cached it
\* too
LookupByFullKeyWitness ==
    \E p \in Procs :
        /\ Len(log[p]) = 2
        /\ dataList[2] = OtherCatalogProduct
        /\ log[p][1].cached
        /\ log[p][1].hash_value = log[p][2].lookup_hash
        /\ ~log[p][2].hit
        /\ log[p][2].inserted

(***************************************************************************)
(* Properties of translate_product (checked under TranslateSpec)           *)
(***************************************************************************)
\* the provider calls the content of a record asks for under field: one per
\* en entry of a localized list, one per category that has the attribute,
\* one for a non-empty scalar
SourceUnits(content, field) ==
    IF field \in LocalizedListFields
    THEN IF field \in DOMAIN content /\ content[field].is_list
         THEN Cardinality({ i \in DOMAIN content[field].items :
                              content[field].items[i].isocode = "en" })
         ELSE 0
    ELSE IF field \in {"categoryList.name", "categoryList.path"}
    THEN IF "categoryList" \in DOMAIN content
         THEN Cardinality({ i \in DOMAIN content["categoryList"].items :
                              CategoryAttr(field) \in DOMAIN content["categoryList"].items[i] })
         ELSE 0
    ELSE IF field \in DOMAIN content /\ content[field].str # "" THEN 1 ELSE 0

RECURSIVE PlannedCalls(_, _, _)
PlannedCalls(content, fields, n) ==
    IF n = 0 THEN 0
    ELSE PlannedCalls(content, fields, n - 1) + SourceUnits(content, fields[n])

\* C19: translate_product issues one provider call per entry the record had
\* when it was passed in, whatever the target language, and has issued
\* exactly that many when it returns.
OneCallPerSourceEntry ==
    \A p \in Procs :
        pc[p] \in {"translate", "select", "crashed"} =>
            LET planned == PlannedCalls(dataList[idx[p]], picked_fields, Len(picked_fields))
            IN /\ calls[p] <= planned
               /\ pc[p] = "select" => calls[p] = planned

\* the record has nothing to translate under field: the field is missing or
\* empty, or no category has a non-empty attribute of that name
EmptyField(content, field) ==
    IF field \in LocalizedListFields
    THEN field \notin DOMAIN content \/ content[field].items = <<>>
    ELSE IF field \in {"categoryList.name", "categoryList.path"}
    THEN \/ "categoryList" \notin DOMAIN content
         \/ \A i \in DOMAIN content["categoryList"].items :
               LET category == content["categoryList"].items[i] IN
               \/ CategoryAttr(field) \notin DOMAIN category
               \/ category[CategoryAttr(field)] = ""
    ELSE field \notin DOMAIN content \/ content[field].str = ""

\* C23: for a record all of whose selected fields are missing or empty,
\* translate_product returns without a provider call and without an error.
EmptyFieldsNoCalls ==
    \A p \in Procs :
        ( /\ pc[p] \in {"translate", "select", "crashed"}
          /\ \A i \in DOMAIN picked_fields : EmptyField(dataList[idx[p]], picked_fields[i]) )
        => (pc[p] = "select" /\ calls[p] = 0 /\ ~raised[p])

\* field f of a record is outside what picked_fields selects
Unselected(f) ==
    /\ f \notin Range(picked_fields)
    /\ f = "categoryList" =>
          Range(picked_fields) \cap {"categoryList.name", "categoryList.path"} = {}

\* C24: while and after translate_product runs, its record has the fields
\* of the input record, every unselected field with the value of the input,
\* and a categoryList with as many categories as the input's, each with the
\* attributes it had: attributes are overwritten, no category is appended.
UnselectedFieldsKept ==
    \A p \in Procs :
        pc[p] \in {"translate", "select", "crashed"} =>
            LET src == dataList[idx[p]]
                out == Content(translated_product[p], lists[p])
            IN /\ DOMAIN out = DOMAIN src
               /\ \A f \in DOMAIN src : Unselected(f) => out[f] = src[f]
               /\ "categoryList" \in DOMAIN src =>
                     /\ Len(out["categoryList"].items) = Len(src["categoryList"].items)
                     /\ \A i \in DOMAIN src["categoryList"].items :
                           DOMAIN out["categoryList"].items[i]
                               = DOMAIN src["categoryList"].items[i]

\* C24 witness: translate_product has returned after translating the name
\* of one category and the path of the other
UnselectedFieldsKeptWitness ==
    \E p \in Procs :
        /\ pc[p] = "select"
        /\ dataList[idx[p]] = CategoryProduct
        /\ calls[p] = 2
        /\ lists[p]["categoryList"][1]["name"] = "Hola"
        /\ lists[p]["categoryList"][2]["path"] = "Ola"

(***************************************************************************)
(* Properties of the fingerprint (checked under HashSpec)                  *)
(***************************************************************************)
\* a value without the key order of its objects
Plain(v) ==
    [is_null |-> v.is_null, is_list |-> v.is_list, str |-> v.str,
     items |-> [i \in 1..Len(v.items) |-> v.items[i].val]]

\* the selected-field subset of record r as content, key order left out
SelectedContent(r, fields) ==
    [f \in Range(fields) \cap Range(r.keys) |-> Plain(r.val[f])]

\* C12: two records whose selected-field subsets are content-equal, whatever
\* the key order of the record and of the objects in its lists, get the same
\* fingerprint, in cache_translation and in get_cached_translation alike;
\* in particular both functions compute the same fingerprint of one record.
FingerprintDeterminism ==
    \A i \in DOMAIN records, j \in DOMAIN records :
        SelectedContent(records[i], picked_fields) = SelectedContent(records[j], picked_fields)
        => /\ (hashed[i].cache /\ hashed[j].lookup) => hashes[i].cache = hashes[j].lookup
           /\ (hashed[i].cache /\ hashed[j].cache) => hashes[i].cache = hashes[j].cache
           /\ (hashed[i].lookup /\ hashed[j].lookup) => hashes[i].lookup = hashes[j].lookup

\* C12 witness: the two records differ in the key order of the record and of
\* the objects of names, one was hashed by cache_translation and the other
\* by get_cached_translation
FingerprintDeterminismWitness ==
    /\ records # <<>>
    /\ records[1] = NamesRecord(<<"description", "names", "code">>, "c1", NameItem, Str("Desc"))
    /\ records[2] = NamesRecord(<<"code", "names", "description">>, "c1",
                                NameItemReordered, Str("Desc"))
    /\ hashed[1].cache
    /\ hashed[2].lookup

\* what record r holds for the selected field f; for categoryList.name and
\* categoryList.path, the attribute of every object of categoryList
SelectedValue(r, f) ==
    IF f \in {"categoryList.name", "categoryList.path"}
    THEN IF "categoryList" \in Range(r.keys)
         THEN [present |-> TRUE,
               value |-> [is_null |-> FALSE, is_list |-> TRUE, str |-> "",
                          items |-> [i \in 1..Len(r.val["categoryList"].items) |->
                              LET item == r.val["categoryList"].items[i].val IN
                              [k \in DOMAIN item \cap {CategoryAttr(f)} |-> item[k]]]]]
         ELSE [present |-> FALSE, value |-> Plain(Null)]
    ELSE IF f \in Range(r.keys)
    THEN [present |-> TRUE, value |-> Plain(r.val[f])]
    ELSE [present |-> FALSE, value |-> Plain(Null)]

\* C13: two records that differ in the value of a selected field, the nested
\* fields categoryList.name and categoryList.path included, have different
\* fingerprints, so the lookup of one does not find the entry of the other.
FingerprintSensitivity ==
    \A i \in DOMAIN records, j \in DOMAIN records :
        ( /\ hashed[i].lookup
          /\ hashed[j].cache
          /\ \E f \in Range(picked_fields) :
                SelectedValue(records[i], f) # SelectedValue(records[j], f) )
        => hashes[i].lookup # hashes[j].cache

\* the selected-field subset of record r as it is, key order included
SelectedPart(r, fields) ==
    [f \in Range(fields) \cap Range(r.keys) |-> r.val[f]]

\* C14: two records that agree on every selected field have the same
\* fingerprint, whatever fields outside the selected list one has and the
\* other lacks or holds with another value; and a record that lacks a
\* selected field has another fingerprint than the record that holds null
\* for it.
UnselectedFieldsIgnored ==
    \A i \in DOMAIN records, j \in DOMAIN records :
        (hashed[i].cache /\ hashed[j].cache) =>
            /\ SelectedPart(records[i], picked_fields) = SelectedPart(records[j], picked_fields)
                  => hashes[i].cache = hashes[j].cache
            /\ \A f \in Range(picked_fields) :
                  ( /\ f \notin Range(records[i].keys)
                    /\ f \in Range(records[j].keys)
                    /\ records[j].val[f].is_null )
                  => hashes[i].cache # hashes[j].cache

\* C14 witness: both records are hashed; they agree on the selected fields
\* and hold different values for the unselected field code
UnselectedFieldsIgnoredWitness ==
    /\ records # <<>>
    /\ hashed[1].cache /\ hashed[2].cache
    /\ SelectedPart(records[1], picked_fields) = SelectedPart(records[2], picked_fields)
    /\ "code" \in Range(records[1].keys) /\ "code" \in Range(records[2].keys)
    /\ records[1].val["code"] # records[2].val["code"]

(***************************************************************************)
(* Properties of get_recent_translations (checked under QuerySpec)         *)
(***************************************************************************)
\* how many entries of the list L equal v, and how many rows of the table
\* are listed as v
CountIn(L, v) == Cardinality({ i \in DOMAIN L : L[i] = v })
CountRows(rows, v) == Cardinality({ k \in DOMAIN rows : result_of(rows[k]) = v })

\* the list L holds the n most recently modified rows of the table, most
\* recent first: at most n entries, all of them when the table has no more
\* than n, in descending order of pira_modified, each a row of the table,
\* and no row left out is more recent than a row listed
MostRecent(L, rows, n) ==
    /\ Len(L) <= n
    /\ Len(L) = (IF n < Len(rows) THEN n ELSE Len(rows))
    /\ \A i \in DOMAIN L, j \in DOMAIN L :
          i < j => L[i].pira_modified >= L[j].pira_modified
    /\ \A i \in DOMAIN L : CountIn(L, L[i]) <= CountRows(rows, L[i])
    /\ \A k \in DOMAIN rows :
          (L # <<>> /\ rows[k].pira_modified > L[Len(L)].pira_modified)
              => CountIn(L, result_of(rows[k])) = CountRows(rows, result_of(rows[k]))

\* C28: every call of get_recent_translations(limit) returns the limit most
\* recently modified rows the table holds when the call is made, ordered by
\* pira_modified descending, and at most limit of them; rows inserted since
\* the call before are among the rows it reads.
RecentStep == queries' # queries => MostRecent(recent', db, limit')
RecentTranslations == [][RecentStep]_vars

\* C28 witness: the second call, with limit 2 on a table of three rows whose
\* last row is the most recent, returned that row first and one of the two
\* rows of the next time after it
RecentTranslationsWitness ==
    /\ queries = 2
    /\ limit = 2
    /\ Len(queried) = 3
    /\ queried[3].catalog_number = "D4"
    /\ queried[1].pira_modified = 1 /\ queried[2].pira_modified = 1
    /\ Len(recent) = 2
    /\ recent[1].catalog_number = "D4"
    /\ recent[2].catalog_number = "C3"

====
